---- MODULE Spec2Model ----
(***************************************************************************)
(* Model of the scheduling core of the Study Plan Optimizer (src/app.js):  *)
(* the task store (AppStorage.studyData), the ID generator, the validators *)
(* and TaskManager's addTask / deleteTask / updateStatus / autoBalance /   *)
(* rescheduleTask / calculateDayTime / getStatistics, with AppStorage's    *)
(* save, load and reset, the auth listener and the handlers that call      *)
(* them.                                                                   *)
(*                                                                         *)
(* Strings that the code inspects character by character (task titles)     *)
(* are sequences of one-character strings; day names and statuses are      *)
(* TLA+ strings.                                                           *)
(***************************************************************************)
EXTENDS Integers, Sequences, FiniteSets, TLC

VARIABLES tasks, dailyLimit, counter, last, now, uid, docs, issued, currentSelectedDay,
          loading

vars ==
  <<tasks, dailyLimit, counter, last, now, uid, docs, issued, currentSelectedDay, loading>>

(***************************************************************************)
(* Bounds of the model.                                                    *)
(***************************************************************************)
\* ids the generator may hand out in one behaviour
MaxId == 3
\* largest number of movable tasks in a store drawn by InitBalance
MaxMovers == 2
\* ids the generator may hand out in one behaviour of SpecFields
MaxFieldId == 2
\* in SpecCloud: ids the generator may hand out between two resets, and tasks
\* in the store
MaxCloudId == 2
\* the last reading of the clock
MaxNow == 2

(***************************************************************************)
(* CONFIG                                                                  *)
(***************************************************************************)
DAYS == <<"monday", "tuesday", "wednesday", "thursday", "friday", "saturday", "sunday">>

COMPLETED == "completed"
NOT_COMPLETED == "not-completed"
APPROACHING == "approaching"
MISSED == "missed"

STATUS == {COMPLETED, NOT_COMPLETED, APPROACHING, MISSED}

DEFAULT_DAILY_LIMIT == 150
MAX_TASK_DURATION == 1440
MAX_TITLE_LENGTH == 100
Mut_MaxBalanceAttempts == 7 + 1
Mut_MaxBalanceAttemptsSix == 7 - 1
MAX_BALANCE_ATTEMPTS == 7
RESCHEDULE_DAYS_AHEAD == 3

\* the messages of the errors the operations throw
EmptyTitle == "Task title is required"
TitleTooLong == "Title too long (max 100 characters)"
MarkupNotAllowed == "HTML tags are not allowed"
NotANumber == "Duration must be a number"
NonPositiveDuration == "Duration must be positive"
DurationTooLarge == "Duration cannot exceed 1440 minutes (24 hours)"
TaskNotFound == "Task not found"
IllegalTransition == "Completed tasks cannot be marked as missed"
BadLimit == "Daily limit must be a positive number"
NoError == "none"

ValidationErrors ==
  {EmptyTitle, TitleTooLong, MarkupNotAllowed, NotANumber, NonPositiveDuration, DurationTooLarge}

\* the two warnings autoBalance shows (without the sign that starts the first)
CannotRedistribute == "Unable to fit all tasks. Some days exceed daily limit."
CannotBalance == "Cannot balance schedule. Please review your tasks."

(***************************************************************************)
(* JavaScript primitives the code relies on.                               *)
(***************************************************************************)
\* a % n of JavaScript: the sign of the result is the sign of a
JsRem(a, n) == IF a >= 0 THEN a % n ELSE 0 - ((0 - a) % n)

\* Array.prototype.indexOf: 0-based index of the first match, -1 if none
RECURSIVE IndexFrom(_, _, _)
IndexFrom(seq, x, i) ==
  IF i > Len(seq) THEN -1
  ELSE IF seq[i] = x THEN i - 1
  ELSE IndexFrom(seq, x, i + 1)

IndexOf(seq, x) == IndexFrom(seq, x, 1)

\* arr[i] of JavaScript: undefined outside the array
At(seq, i) == IF i \in 0..(Len(seq) - 1) THEN seq[i + 1] ELSE "undefined"

\* String.prototype.toLowerCase on the day names the model feeds in
ToLowerCase(s) ==
  CASE s = "Monday" -> "monday"
    [] s = "Thursday" -> "thursday"
    [] s = "FUNDAY" -> "funday"
    [] OTHER -> s

\* parseInt on the raw form values the model feeds in: [nan, num], nan for NaN
Parsed(n) == [nan |-> FALSE, num |-> n]
ParseInt(raw) ==
  CASE raw = "0" -> Parsed(0)
    [] raw = "1" -> Parsed(1)
    [] raw = "1e3" -> Parsed(1)
    [] raw = "-5" -> Parsed(-5)
    [] raw = "50" -> Parsed(50)
    [] raw = "100" -> Parsed(100)
    [] raw = "150" -> Parsed(150)
    [] raw = "1440" -> Parsed(1440)
    [] raw = "1441" -> Parsed(1441)
    [] raw = "50.7" -> Parsed(50)
    [] raw = "50min" -> Parsed(50)
    [] OTHER -> [nan |-> TRUE, num |-> 0]

\* String(n), which parseInt applies first to an argument that is a number
NumberString(n) ==
  CASE n = 1 -> "1"
    [] n = 50 -> "50"
    [] n = 100 -> "100"
    [] n = 150 -> "150"
    [] n = 1440 -> "1440"

IsWhite(c) == c = " "

RECURSIVE TrimLeft(_)
TrimLeft(s) == IF s # <<>> /\ IsWhite(Head(s)) THEN TrimLeft(Tail(s)) ELSE s

RECURSIVE TrimRight(_)
TrimRight(s) ==
  IF s # <<>> /\ IsWhite(s[Len(s)]) THEN TrimRight(SubSeq(s, 1, Len(s) - 1)) ELSE s

\* String.prototype.trim
Trim(s) == TrimRight(TrimLeft(s))

(***************************************************************************)
(* Numbers are IEEE 754 doubles.  Sums of durations and counts are exact;  *)
(* a quotient and its product with 100 are rounded to 53 significant bits. *)
(* A positive double is [m, e]: m its 53 significand bits, the most        *)
(* significant (a 1) first, and e the power of two that bit stands for;    *)
(* m is <<>> for 0.                                                        *)
(***************************************************************************)
SignificandBits == 53

Zero == [m |-> <<>>, e |-> 0]

RECURSIVE Pow2(_)
Pow2(k) == IF k = 0 THEN 1 ELSE 2 * Pow2(k - 1)

\* the largest e with b * 2^e <= a, for a >= b
RECURSIVE ExponentUp(_, _, _)
ExponentUp(a, b, e) == IF b * Pow2(e + 1) <= a THEN ExponentUp(a, b, e + 1) ELSE e

\* the smallest k with a * 2^k >= b, for a < b
RECURSIVE ExponentDown(_, _, _)
ExponentDown(a, b, k) == IF a * Pow2(k) >= b THEN k ELSE ExponentDown(a, b, k + 1)

\* the next k bits of r / d for r < d, then one bit telling whether a rest is left
RECURSIVE DivBits(_, _, _)
DivBits(r, d, k) ==
  IF k = 0 THEN <<IF r # 0 THEN 1 ELSE 0>>
  ELSE IF 2 * r >= d THEN <<1>> \o DivBits(2 * r - d, d, k - 1)
  ELSE <<0>> \o DivBits(2 * r, d, k - 1)

\* bits + 1; one bit longer when every bit was 1
RECURSIVE IncBits(_)
IncBits(bits) ==
  IF bits = <<>> THEN <<1>>
  ELSE IF bits[Len(bits)] = 0 THEN [bits EXCEPT ![Len(bits)] = 1]
  ELSE IncBits(SubSeq(bits, 1, Len(bits) - 1)) \o <<0>>

Zeros(k) == [i \in 1..k |-> 0]

\* round to nearest, ties to even: bits start with a 1 that stands for 2^e
RoundToDouble(bits, e) ==
  LET all == IF Len(bits) > SignificandBits THEN bits
             ELSE bits \o Zeros(SignificandBits + 1 - Len(bits))
      m == SubSeq(all, 1, SignificandBits)
      guard == all[SignificandBits + 1]
      sticky == \E i \in (SignificandBits + 2)..Len(all) : all[i] = 1
      up == guard = 1 /\ (sticky \/ m[SignificandBits] = 1)
      m1 == IF up THEN IncBits(m) ELSE m
  IN IF Len(m1) > SignificandBits
     THEN [m |-> SubSeq(m1, 1, SignificandBits), e |-> e + 1]
     ELSE [m |-> m1, e |-> e]

\* a / b for integers a >= 0 and b > 0
Divide(a, b) ==
  IF a = 0 THEN Zero
  ELSE LET e == IF a >= b THEN ExponentUp(a, b, 0) ELSE 0 - ExponentDown(a, b, 1)
           n == IF e >= 0 THEN a ELSE a * Pow2(0 - e)
           d == IF e >= 0 THEN b * Pow2(e) ELSE b
       IN RoundToDouble(<<1>> \o DivBits(n - d, d, SignificandBits), e)

\* x + y for bit sequences of one length; the sum is one bit longer
RECURSIVE AddBits(_, _, _, _)
AddBits(x, y, i, carry) ==
  IF i = 0 THEN <<carry>>
  ELSE IF x[i] + y[i] + carry >= 2
  THEN AddBits(x, y, i - 1, 1) \o <<x[i] + y[i] + carry - 2>>
  ELSE AddBits(x, y, i - 1, 0) \o <<x[i] + y[i] + carry>>

RECURSIVE StripZeros(_)
StripZeros(bits) == IF bits # <<>> /\ bits[1] = 0 THEN StripZeros(Tail(bits)) ELSE bits

\* x * 100: the significand times 64 + 32 + 4, rounded
Times100(x) ==
  IF x.m = <<>> THEN Zero
  ELSE LET n == SignificandBits + 7
           x64 == Zeros(1) \o x.m \o Zeros(6)
           x32 == Zeros(2) \o x.m \o Zeros(5)
           x4 == Zeros(6) \o x.m \o Zeros(2)
           sum1 == AddBits(x64, x32, n, 0)
           sum2 == AddBits(sum1, x4, n + 1, 0)
           product == StripZeros(sum2)
       IN RoundToDouble(product, x.e - (SignificandBits - 1) + (Len(product) - 1))

RECURSIVE BitsToInt(_)
BitsToInt(bits) ==
  IF bits = <<>> THEN 0
  ELSE 2 * BitsToInt(SubSeq(bits, 1, Len(bits) - 1)) + bits[Len(bits)]

\* Math.round of a double x with 0 <= x < 2^31: the nearest integer, a half going up
MathRound(x) ==
  IF x.m = <<>> \/ x.e < -1 THEN 0
  ELSE BitsToInt(SubSeq(x.m, 1, x.e + 1))
         + (IF x.e + 2 <= SignificandBits THEN x.m[x.e + 2] ELSE 0)

(***************************************************************************)
(* Utils                                                                   *)
(***************************************************************************)
EscapeChar(c) ==
  CASE c = "&" -> <<"&", "a", "m", "p", ";">>
    [] c = "<" -> <<"&", "l", "t", ";">>
    [] c = ">" -> <<"&", "g", "t", ";">>
    [] OTHER -> <<c>>

\* Utils.escapeHtml: textContent -> innerHTML escapes & < >
RECURSIVE EscapeFrom(_, _)
EscapeFrom(text, i) ==
  IF i > Len(text) THEN <<>> ELSE EscapeChar(text[i]) \o EscapeFrom(text, i + 1)

escapeHtml(text) == EscapeFrom(text, 1)

getDayIndex(dayName) == IndexOf(DAYS, ToLowerCase(dayName))

Mut_getNextDay(currentDay) == At(DAYS, getDayIndex(currentDay) + 1)

getNextDay(currentDay) == At(DAYS, JsRem(getDayIndex(currentDay) + 1, Len(DAYS)))

Mut_getDayAhead(currentDay, daysAhead) ==
  At(DAYS, getDayIndex(currentDay) + daysAhead)

getDayAhead(currentDay, daysAhead) ==
  At(DAYS, JsRem(getDayIndex(currentDay) + daysAhead, Len(DAYS)))

(***************************************************************************)
(* Validator                                                               *)
(***************************************************************************)
\* /<[^>]*>/.test(title): some '<' with a '>' somewhere after it
HasTag(title) ==
  \E i \in 1..Len(title) : title[i] = "<" /\ \E j \in (i + 1)..Len(title) : title[j] = ">"

Mut_validateTaskTitle(title) ==
  IF title = <<>> \/ Len(Trim(title)) = 0
  THEN [valid |-> FALSE, error |-> EmptyTitle, value |-> <<>>]
  ELSE IF Len(title) > MAX_TITLE_LENGTH
  THEN [valid |-> FALSE, error |-> TitleTooLong, value |-> <<>>]
  ELSE IF HasTag(title)
  THEN [valid |-> FALSE, error |-> MarkupNotAllowed, value |-> <<>>]
  ELSE [valid |-> TRUE, error |-> NoError, value |-> escapeHtml(title)]

validateTaskTitle(title) ==
  IF title = <<>> \/ Len(Trim(title)) = 0
  THEN [valid |-> FALSE, error |-> EmptyTitle, value |-> <<>>]
  ELSE IF Len(title) > MAX_TITLE_LENGTH
  THEN [valid |-> FALSE, error |-> TitleTooLong, value |-> <<>>]
  ELSE IF HasTag(title)
  THEN [valid |-> FALSE, error |-> MarkupNotAllowed, value |-> <<>>]
  ELSE [valid |-> TRUE, error |-> NoError, value |-> escapeHtml(Trim(title))]

Mut_validateDurationZero(duration) ==
  LET parsed == ParseInt(duration)
      num == parsed.num
  IN IF parsed.nan
     THEN [valid |-> FALSE, error |-> NotANumber, value |-> 0]
     ELSE IF num < 0
     THEN [valid |-> FALSE, error |-> NonPositiveDuration, value |-> 0]
     ELSE IF num > MAX_TASK_DURATION
     THEN [valid |-> FALSE, error |-> DurationTooLarge, value |-> 0]
     ELSE [valid |-> TRUE, error |-> NoError, value |-> num]

Mut_validateDuration(duration) ==
  LET parsed == ParseInt(duration)
      num == parsed.num
  IN IF parsed.nan
     THEN [valid |-> FALSE, error |-> NotANumber, value |-> 0]
     ELSE IF num <= 0
     THEN [valid |-> FALSE, error |-> NonPositiveDuration, value |-> 0]
     ELSE [valid |-> TRUE, error |-> NoError, value |-> num]

validateDuration(duration) ==
  LET parsed == ParseInt(duration)
      num == parsed.num
  IN IF parsed.nan
     THEN [valid |-> FALSE, error |-> NotANumber, value |-> 0]
     ELSE IF num <= 0
     THEN [valid |-> FALSE, error |-> NonPositiveDuration, value |-> 0]
     ELSE IF num > MAX_TASK_DURATION
     THEN [valid |-> FALSE, error |-> DurationTooLarge, value |-> 0]
     ELSE [valid |-> TRUE, error |-> NoError, value |-> num]

(***************************************************************************)
(* IDGenerator: `task_${Date.now()}_${counter++}`.  An id of the model is  *)
(* the pair of the two numbers the template joins: the clock reading and   *)
(* the counter.  Date.now() is the variable now.                           *)
(***************************************************************************)
\* the clock reading at page load
StartTime == 1

\* the id of no task
NoId == <<>>

generate(c) == [id |-> <<now, c>>, counter |-> c + 1]

\* IDGenerator.reset
resetCounter == 1

(***************************************************************************)
(* TaskManager                                                             *)
(***************************************************************************)
RECURSIVE SumDuration(_)
SumDuration(ts) == IF ts = <<>> THEN 0 ELSE Head(ts).duration + SumDuration(Tail(ts))

Mut_calculateDayTime(ts, dayName) ==
  SumDuration(SelectSeq(ts, LAMBDA t : t.day = ToLowerCase(dayName)))

\* filter(day matches and status is not missed).reduce(sum of duration)
calculateDayTime(ts, dayName) ==
  SumDuration(SelectSeq(ts, LAMBDA t : t.day = ToLowerCase(dayName) /\ t.status # MISSED))

getTasksByDay(ts, dayName) == SelectSeq(ts, LAMBDA t : t.day = ToLowerCase(dayName))

\* Array.prototype.findIndex by id: 0-based, -1 if none
FindIndex(ts, taskId) ==
  IF \E i \in 1..Len(ts) : ts[i].id = taskId
  THEN (CHOOSE i \in 1..Len(ts) : ts[i].id = taskId /\ \A j \in 1..(i - 1) : ts[j].id # taskId) - 1
  ELSE -1

\* the store positions (1-based) of the tasks autoBalance filters for a day
RECURSIVE DayPositions(_, _, _)
DayPositions(ts, currentDay, i) ==
  IF i > Len(ts) THEN <<>>
  ELSE IF ts[i].day = currentDay /\ ts[i].status # MISSED
  THEN <<i>> \o DayPositions(ts, currentDay, i + 1)
  ELSE DayPositions(ts, currentDay, i + 1)

\* one insertion of the stable sort with comparator b.duration - a.duration:
\* p goes after every position whose duration is >= its own
RECURSIVE InsertDesc(_, _, _)
InsertDesc(ts, sorted, p) ==
  IF sorted = <<>> THEN <<p>>
  ELSE IF ts[Head(sorted)].duration >= ts[p].duration
  THEN <<Head(sorted)>> \o InsertDesc(ts, Tail(sorted), p)
  ELSE <<p>> \o sorted

RECURSIVE SortDesc(_, _, _)
SortDesc(ts, positions, sorted) ==
  IF positions = <<>> THEN sorted
  ELSE SortDesc(ts, Tail(positions), InsertDesc(ts, sorted, Head(positions)))

Mut_MovableAnySize(t, excess) == t.status = NOT_COMPLETED

Mut_MovableAnyStatus(t, excess) == t.duration <= excess

Mut_MovableTwiceExcess(t, excess) == t.status = NOT_COMPLETED /\ t.duration <= 2 * excess

Mut_MovableOverExcess(t, excess) == t.status = NOT_COMPLETED /\ t.duration <= excess + 50

\* the test of the relocation scan
Movable(t, excess) == t.status = NOT_COMPLETED /\ t.duration <= excess

Mut_ScanFromStart(ts, dayTasks, i, excess) ==
  IF \E j \in 1..i : Movable(ts[dayTasks[j]], excess)
  THEN dayTasks[CHOOSE j \in 1..i : /\ Movable(ts[dayTasks[j]], excess)
                                    /\ \A h \in 1..(j - 1) : ~Movable(ts[dayTasks[h]], excess)]
  ELSE 0

\* for (i = dayTasks.length - 1; i >= 0; i--): the store position of the first
\* movable task from the end of the sorted day list, 0 if there is none
RECURSIVE ScanFromEnd(_, _, _, _)
ScanFromEnd(ts, dayTasks, i, excess) ==
  IF i < 1 THEN 0
  ELSE IF Movable(ts[dayTasks[i]], excess) THEN dayTasks[i]
  ELSE ScanFromEnd(ts, dayTasks, i - 1, excess)

Mut_UnderLimit(totalTime, limit) == totalTime <= limit + 50

Mut_UnderLimitStrict(totalTime, limit) == totalTime < limit

\* the loop's exit test
UnderLimit(totalTime, limit) == totalTime <= limit

NoBalance ==
  [ran |-> FALSE, start |-> "", stop |-> "", iters |-> 0, moved |-> <<>>, warn |-> <<>>]

\* the while loop of autoBalance and the check after it.  b is the record of the
\* run so far: iters counts executions of the loop body, moved lists the
\* relocations, warn the warnings shown, stop is currentDay.
RECURSIVE BalanceLoop(_, _, _, _, _)
BalanceLoop(ts, limit, currentDay, attemptCount, b) ==
  IF ~(attemptCount < MAX_BALANCE_ATTEMPTS)
  THEN [tasks |-> ts,
        bal |-> [b EXCEPT !.stop = currentDay, !.warn = @ \o <<CannotBalance>>]]
  ELSE
    LET totalTime == calculateDayTime(ts, currentDay)
        excess == totalTime - limit
        dayTasks == SortDesc(ts, DayPositions(ts, currentDay, 1), <<>>)
        p == ScanFromEnd(ts, dayTasks, Len(dayTasks), excess)
        b1 == [b EXCEPT !.iters = @ + 1, !.stop = currentDay]
    IN IF UnderLimit(totalTime, limit)
       THEN [tasks |-> ts, bal |-> b1]
       ELSE IF p = 0
       THEN [tasks |-> ts, bal |-> [b1 EXCEPT !.warn = @ \o <<CannotRedistribute>>]]
       ELSE BalanceLoop(
              [ts EXCEPT ![p].day = getNextDay(currentDay)],
              limit,
              getNextDay(currentDay),
              attemptCount + 1,
              [b1 EXCEPT !.moved = @ \o <<[id |-> ts[p].id, from |-> currentDay,
                                            to |-> getNextDay(currentDay),
                                            duration |-> ts[p].duration,
                                            excess |-> excess]>>])

\* TaskManager.autoBalance: [tasks, bal]
autoBalance(ts, limit, originalDay) ==
  BalanceLoop(ts, limit, ToLowerCase(originalDay), 0,
              [NoBalance EXCEPT !.ran = TRUE, !.start = ToLowerCase(originalDay),
                                !.stop = ToLowerCase(originalDay)])

RescheduledPrefix == <<"R", "E", "S", "C", "H", "E", "D", "U", "L", "E", "D", ":", " ">>

Mut_rescheduleTask(ts, limit, c, originalTask) ==
  LET newDay == getDayAhead(originalTask.day, RESCHEDULE_DAYS_AHEAD)
      g == generate(c)
      newTask == [originalTask EXCEPT !.id = g.id,
                                      !.title = RescheduledPrefix \o originalTask.title,
                                      !.day = newDay]
      r == autoBalance(Append(ts, newTask), limit, newDay)
  IN [tasks |-> r.tasks, counter |-> g.counter, bal |-> r.bal,
      spawned |-> g.id, target |-> newDay]

\* TaskManager.rescheduleTask: [tasks, counter, bal, spawned, target]
rescheduleTask(ts, limit, c, originalTask) ==
  LET newDay == getDayAhead(originalTask.day, RESCHEDULE_DAYS_AHEAD)
      g == generate(c)
      newTask == [id |-> g.id,
                  title |-> RescheduledPrefix \o originalTask.title,
                  duration |-> originalTask.duration,
                  day |-> newDay,
                  status |-> NOT_COMPLETED]
      r == autoBalance(Append(ts, newTask), limit, newDay)
  IN [tasks |-> r.tasks, counter |-> g.counter, bal |-> r.bal,
      spawned |-> g.id, target |-> newDay]

\* what the model remembers of the last call: the operation, the error it threw
\* (NoError if it returned), the task id it was about (the id created by addTask),
\* its status argument, its return value, whether it called AppStorage.save,
\* the record of the autoBalance run it made and the task rescheduleTask spawned
Last(op, err, id, arg, ret, saved, bal, spawned, target) ==
  [op |-> op, err |-> err, id |-> id, arg |-> arg, ret |-> ret, saved |-> saved,
   bal |-> bal, spawned |-> spawned, target |-> target]

\* a call that throws before it changes anything
Thrown(ts, c, op, err, id, arg) ==
  [tasks |-> ts, counter |-> c,
   last |-> Last(op, err, id, arg, FALSE, FALSE, NoBalance, NoId, "")]

Mut_addTaskWarningThrows(ts, limit, c, title, duration, day, status) ==
  LET titleValidation == validateTaskTitle(title)
      durationValidation == validateDuration(duration)
      g == generate(c)
      task == [id |-> g.id, title |-> titleValidation.value,
               duration |-> durationValidation.value,
               day |-> ToLowerCase(day), status |-> status]
      r == autoBalance(Append(ts, task), limit, day)
  IN IF ~titleValidation.valid
     THEN Thrown(ts, c, "addTask", titleValidation.error, NoId, "")
     ELSE IF ~durationValidation.valid
     THEN Thrown(ts, c, "addTask", durationValidation.error, NoId, "")
     ELSE IF r.bal.warn # <<>>
     THEN [tasks |-> r.tasks, counter |-> g.counter,
           last |-> Last("addTask", r.bal.warn[1], g.id, status, FALSE, FALSE, r.bal, NoId, "")]
     ELSE [tasks |-> r.tasks, counter |-> g.counter,
           last |-> Last("addTask", NoError, g.id, status, TRUE, TRUE, r.bal, NoId, "")]

Mut_addTask(ts, limit, c, title, duration, day, status) ==
  LET titleValidation == validateTaskTitle(title)
      durationValidation == validateDuration(duration)
      g == generate(c)
      task == [id |-> g.id, title |-> titleValidation.value,
               duration |-> durationValidation.value,
               day |-> ToLowerCase(day), status |-> status]
      r == autoBalance(Append(ts, task), limit, day)
  IN IF ~titleValidation.valid
     THEN Thrown(ts, c, "addTask", titleValidation.error, NoId, "")
     ELSE IF ~durationValidation.valid
     THEN Thrown(ts, g.counter, "addTask", durationValidation.error, NoId, "")
     ELSE [tasks |-> r.tasks, counter |-> g.counter,
           last |-> Last("addTask", NoError, g.id, status, TRUE, TRUE, r.bal, NoId, "")]

\* TaskManager.addTask: validate, create, push, autoBalance(day), save
addTask(ts, limit, c, title, duration, day, status) ==
  LET titleValidation == validateTaskTitle(title)
      durationValidation == validateDuration(duration)
      g == generate(c)
      task == [id |-> g.id, title |-> titleValidation.value,
               duration |-> durationValidation.value,
               day |-> ToLowerCase(day), status |-> status]
      r == autoBalance(Append(ts, task), limit, day)
  IN IF ~titleValidation.valid
     THEN Thrown(ts, c, "addTask", titleValidation.error, NoId, "")
     ELSE IF ~durationValidation.valid
     THEN Thrown(ts, c, "addTask", durationValidation.error, NoId, "")
     ELSE [tasks |-> r.tasks, counter |-> g.counter,
           last |-> Last("addTask", NoError, g.id, status, TRUE, TRUE, r.bal, NoId, "")]

Mut_Splice(ts, index) == SubSeq(ts, 1, index)

\* splice(index, 1) at a 0-based index
Splice(ts, index) == SubSeq(ts, 1, index) \o SubSeq(ts, index + 2, Len(ts))

Mut_deleteTask(ts, c, taskId) ==
  LET index == FindIndex(ts, taskId)
  IN IF index > -1
     THEN [tasks |-> Splice(ts, index), counter |-> c,
           last |-> Last("deleteTask", NoError, taskId, "", TRUE, TRUE, NoBalance, NoId, "")]
     ELSE [tasks |-> ts, counter |-> c,
           last |-> Last("deleteTask", NoError, taskId, "", FALSE, TRUE, NoBalance, NoId, "")]

\* TaskManager.deleteTask
deleteTask(ts, c, taskId) ==
  LET index == FindIndex(ts, taskId)
  IN IF index > -1
     THEN [tasks |-> Splice(ts, index), counter |-> c,
           last |-> Last("deleteTask", NoError, taskId, "", TRUE, TRUE, NoBalance, NoId, "")]
     ELSE [tasks |-> ts, counter |-> c,
           last |-> Last("deleteTask", NoError, taskId, "", FALSE, FALSE, NoBalance, NoId, "")]

Mut_IsIllegal(status, newStatus) ==
  status \in {COMPLETED, APPROACHING} /\ newStatus = MISSED

Mut_IsIllegalSelf(status, newStatus) ==
  (status = COMPLETED /\ newStatus = MISSED) \/ (status = MISSED /\ newStatus = MISSED)

\* the transition updateStatus refuses
IsIllegal(status, newStatus) == status = COMPLETED /\ newStatus = MISSED

Mut_updateStatusBalances(ts, limit, c, taskId, newStatus) ==
  LET index == FindIndex(ts, taskId)
      task == ts[index + 1]
      ts1 == [ts EXCEPT ![index + 1].status = newStatus]
      r == rescheduleTask(ts1, limit, c, ts1[index + 1])
      b == autoBalance(ts1, limit, task.day)
  IN IF index = -1
     THEN Thrown(ts, c, "updateStatus", TaskNotFound, taskId, newStatus)
     ELSE IF IsIllegal(task.status, newStatus)
     THEN Thrown(ts, c, "updateStatus", IllegalTransition, taskId, newStatus)
     ELSE IF newStatus = MISSED
     THEN [tasks |-> r.tasks, counter |-> r.counter,
           last |-> Last("updateStatus", NoError, taskId, newStatus, TRUE, TRUE,
                         r.bal, r.spawned, r.target)]
     ELSE [tasks |-> b.tasks, counter |-> c,
           last |-> Last("updateStatus", NoError, taskId, newStatus, TRUE, TRUE,
                         NoBalance, NoId, "")]

\* TaskManager.updateStatus
updateStatus(ts, limit, c, taskId, newStatus) ==
  LET index == FindIndex(ts, taskId)
      task == ts[index + 1]
      ts1 == [ts EXCEPT ![index + 1].status = newStatus]
      r == rescheduleTask(ts1, limit, c, ts1[index + 1])
  IN IF index = -1
     THEN Thrown(ts, c, "updateStatus", TaskNotFound, taskId, newStatus)
     ELSE IF IsIllegal(task.status, newStatus)
     THEN Thrown(ts, c, "updateStatus", IllegalTransition, taskId, newStatus)
     ELSE IF newStatus = MISSED
     THEN [tasks |-> r.tasks, counter |-> r.counter,
           last |-> Last("updateStatus", NoError, taskId, newStatus, TRUE, TRUE,
                         r.bal, r.spawned, r.target)]
     ELSE [tasks |-> ts1, counter |-> c,
           last |-> Last("updateStatus", NoError, taskId, newStatus, TRUE, TRUE,
                         NoBalance, NoId, "")]

Mut_handleUpdateSettings(limit, raw) ==
  LET parsed == ParseInt(raw)
  IN IF parsed.nan \/ parsed.num < 0
     THEN [dailyLimit |-> limit,
           last |-> Last("updateSettings", BadLimit, NoId, "", FALSE, FALSE, NoBalance, NoId, "")]
     ELSE [dailyLimit |-> parsed.num,
           last |-> Last("updateSettings", NoError, NoId, "", TRUE, TRUE, NoBalance, NoId, "")]

\* Handlers.handleUpdateSettings: [dailyLimit, last]
handleUpdateSettings(limit, raw) ==
  LET parsed == ParseInt(raw)
  IN IF parsed.nan \/ parsed.num <= 0
     THEN [dailyLimit |-> limit,
           last |-> Last("updateSettings", BadLimit, NoId, "", FALSE, FALSE, NoBalance, NoId, "")]
     ELSE [dailyLimit |-> parsed.num,
           last |-> Last("updateSettings", NoError, NoId, "", TRUE, TRUE, NoBalance, NoId, "")]

\* TaskManager.getTaskCounts
getTaskCounts(ts) ==
  [total |-> Len(ts),
   completed |-> Len(SelectSeq(ts, LAMBDA t : t.status = COMPLETED)),
   notCompleted |-> Len(SelectSeq(ts, LAMBDA t : t.status = NOT_COMPLETED)),
   approaching |-> Len(SelectSeq(ts, LAMBDA t : t.status = APPROACHING)),
   missed |-> Len(SelectSeq(ts, LAMBDA t : t.status = MISSED))]

\* TaskManager.getStatistics
getStatistics(ts) ==
  LET counts == getTaskCounts(ts)
      totalMinutes == SumDuration(ts)
      avgDuration == IF Len(ts) > 0 THEN MathRound(Divide(totalMinutes, Len(ts))) ELSE 0
  IN [total |-> counts.total,
      completed |-> counts.completed,
      notCompleted |-> counts.notCompleted,
      approaching |-> counts.approaching,
      missed |-> counts.missed,
      totalMinutes |-> totalMinutes,
      avgDuration |-> avgDuration,
      completionRate |->
        IF Len(ts) > 0 THEN MathRound(Times100(Divide(counts.completed, Len(ts)))) ELSE 0]

(***************************************************************************)
(* AppStorage.  userData.uid is the variable uid, Guest when it is null;   *)
(* docs holds, for every user, the document users/<uid> of the remote      *)
(* database.  A remote write either completes or is rejected.              *)
(***************************************************************************)
Guest == ""

Users == {"u1"}

SaveFailed == "Firestore write rejected"

NoDoc == [exists |-> FALSE, tasks |-> <<>>, dailyLimit |-> DEFAULT_DAILY_LIMIT]

\* the get() of a load under way: sent, then served with the document the
\* server read, then delivered to the code after the await
Idle == [phase |-> "idle", uid |-> Guest, doc |-> NoDoc]

\* AppStorage.save: [docs, ok]; ok is FALSE when the awaited set() rejects
save(ts, limit, u, ds, accepted) ==
  IF u = Guest
  THEN [docs |-> ds, ok |-> TRUE]
  ELSE IF accepted
  THEN [docs |-> [ds EXCEPT ![u] = [exists |-> TRUE, tasks |-> ts, dailyLimit |-> limit]],
        ok |-> TRUE]
  ELSE [docs |-> ds, ok |-> FALSE]

\* AppStorage.load: [tasks, dailyLimit, docs, ok]
load(ts, limit, u, ds, accepted) ==
  IF u = Guest
  THEN [tasks |-> ts, dailyLimit |-> limit, docs |-> ds, ok |-> TRUE]
  ELSE IF ds[u].exists
  THEN [tasks |-> ds[u].tasks, dailyLimit |-> ds[u].dailyLimit, docs |-> ds, ok |-> TRUE]
  ELSE LET s == save(ts, limit, u, ds, accepted)
       IN [tasks |-> ts, dailyLimit |-> limit, docs |-> s.docs, ok |-> s.ok]

Mut_reset ==
  [tasks |-> <<>>, dailyLimit |-> DEFAULT_DAILY_LIMIT, currentSelectedDay |-> currentSelectedDay,
   counter |-> resetCounter]

\* AppStorage.reset: [tasks, dailyLimit, currentSelectedDay, counter]
reset ==
  [tasks |-> <<>>, dailyLimit |-> DEFAULT_DAILY_LIMIT, currentSelectedDay |-> "",
   counter |-> resetCounter]

\* the outcomes of a remote write: none fails while nobody is signed in
SaveOutcomes == IF uid = Guest THEN {TRUE} ELSE BOOLEAN

\* the ids the call recorded in l took from IDGenerator.generate
Generated(l) ==
  (IF l.op = "addTask" /\ l.id # NoId THEN {l.id} ELSE {}) \cup
  (IF l.spawned # NoId THEN {l.spawned} ELSE {})

Mut_PersistStale(ts, limit, l) ==
  \E accepted \in SaveOutcomes :
    LET s == IF l.saved THEN save(tasks, limit, uid, docs, accepted)
             ELSE [docs |-> docs, ok |-> TRUE]
    IN /\ docs' = s.docs
       /\ last' = IF s.ok THEN l ELSE [l EXCEPT !.err = SaveFailed, !.ret = FALSE]

\* the `await AppStorage.save()` that ends an operation, when the operation
\* got as far as calling it: the store ts is written under the signed-in
\* user, and a rejected write is thrown to the caller
Persist(ts, limit, l) ==
  \E accepted \in SaveOutcomes :
    LET s == IF l.saved THEN save(ts, limit, uid, docs, accepted)
             ELSE [docs |-> docs, ok |-> TRUE]
    IN /\ docs' = s.docs
       /\ last' = IF s.ok THEN l ELSE [l EXCEPT !.err = SaveFailed, !.ret = FALSE]

(***************************************************************************)
(* The inputs of the model.                                                *)
(***************************************************************************)
\* titles of 10, 100 and 101 characters
Title10 == <<"a", "a", "a", "a", "a", "a", "a", "a", "a", "a">>

Title100 ==
  Title10 \o Title10 \o Title10 \o Title10 \o Title10 \o Title10 \o Title10 \o Title10
    \o Title10 \o Title10

LongTitle == Title100 \o <<"a">>

GoodTitle == <<" ", "a", "&">>

TitleInputs == {<<>>, <<" ">>, <<"<", "b", ">">>, LongTitle, GoodTitle}

DurationInputs == {"abc", "0", "1441", "100"}

\* the title and duration fields of the add-task form: every title with a good
\* duration, every duration with a good title, and both bad
FormInputs ==
  {<<t, "100">> : t \in TitleInputs} \cup {<<GoodTitle, d>> : d \in DurationInputs}
    \cup {<<<<>>, "abc">>}

GoodForm == <<GoodTitle, "100">>

\* what the forms of the page offer for the day
DayInputs == {"Monday"}

LimitInputs == {"abc", "0", "50"}

\* the ids a session without reset hands out
TaskIds == {<<StartTime, c>> : c \in 1..MaxId}

(***************************************************************************)
(* The session: the store after construction and the operations on it.     *)
(***************************************************************************)
Init ==
  /\ tasks = <<>>
  /\ dailyLimit = DEFAULT_DAILY_LIMIT
  /\ counter = 1
  /\ last = Last("init", NoError, NoId, "", FALSE, FALSE, NoBalance, NoId, "")
  /\ now = StartTime
  /\ uid = Guest
  /\ docs = [u \in Users |-> NoDoc]
  /\ issued = {}
  /\ currentSelectedDay = ""
  /\ loading = Idle

AddTask(title, duration, day, status) ==
  LET r == addTask(tasks, dailyLimit, counter, title, duration, day, status)
  IN /\ r.counter <= MaxId + 1
     /\ tasks' = r.tasks
     /\ counter' = r.counter
     /\ issued' = issued \cup Generated(r.last)
     /\ Persist(r.tasks, dailyLimit, r.last)
     /\ UNCHANGED <<dailyLimit, now, uid, currentSelectedDay, loading>>

DeleteTask(taskId) ==
  LET r == deleteTask(tasks, counter, taskId)
  IN /\ tasks' = r.tasks
     /\ counter' = r.counter
     /\ Persist(r.tasks, dailyLimit, r.last)
     /\ UNCHANGED <<dailyLimit, now, uid, issued, currentSelectedDay, loading>>

UpdateStatus(taskId, newStatus) ==
  LET r == updateStatus(tasks, dailyLimit, counter, taskId, newStatus)
  IN /\ r.counter <= MaxId + 1
     /\ tasks' = r.tasks
     /\ counter' = r.counter
     /\ issued' = issued \cup Generated(r.last)
     /\ Persist(r.tasks, dailyLimit, r.last)
     /\ UNCHANGED <<dailyLimit, now, uid, currentSelectedDay, loading>>

UpdateSettings(raw) ==
  LET r == handleUpdateSettings(dailyLimit, raw)
  IN /\ dailyLimit' = r.dailyLimit
     /\ Persist(tasks, r.dailyLimit, r.last)
     /\ UNCHANGED <<tasks, counter, now, uid, issued, currentSelectedDay, loading>>

Next ==
  \/ \E form \in FormInputs, day \in DayInputs :
       \E status \in (IF form = GoodForm THEN STATUS ELSE {NOT_COMPLETED}) :
         AddTask(form[1], form[2], day, status)
  \/ \E taskId \in TaskIds : DeleteTask(taskId)
  \/ \E taskId \in TaskIds, newStatus \in STATUS : UpdateStatus(taskId, newStatus)
  \/ \E raw \in LimitInputs : UpdateSettings(raw)

Spec == Init /\ [][Next]_vars

(***************************************************************************)
(* The TaskManager API called directly: addTask takes any string as day.   *)
(***************************************************************************)
ApiDayInputs == {"Monday", "funday"}

NextApi ==
  \/ \E day \in ApiDayInputs, status \in {NOT_COMPLETED, COMPLETED} :
       AddTask(GoodTitle, "100", day, status)
  \/ \E taskId \in TaskIds : DeleteTask(taskId)
  \/ \E taskId \in TaskIds, newStatus \in STATUS : UpdateStatus(taskId, newStatus)

SpecApi == Init /\ [][NextApi]_vars

(***************************************************************************)
(* The TaskManager API called with field values at and beyond the edges of *)
(* what the validators take, on a store whose limit came from a saved      *)
(* document (AppStorage.load takes any finite number, 0 included).         *)
(***************************************************************************)
\* the forms addTask refuses
BadFieldForms == {<<GoodTitle, "1441">>, <<LongTitle, "100">>, <<GoodTitle, "-5">>}

FieldDays == {"Monday", "sunday"}

Paused == "paused"

FieldLimits == {0, DEFAULT_DAILY_LIMIT}

FieldIds == {<<StartTime, c>> : c \in 1..MaxFieldId}

InitFields ==
  /\ tasks = <<>>
  /\ dailyLimit \in FieldLimits
  /\ counter = 1
  /\ last = Last("init", NoError, NoId, "", FALSE, FALSE, NoBalance, NoId, "")
  /\ now = StartTime
  /\ uid = Guest
  /\ docs = [u \in Users |-> NoDoc]
  /\ issued = {}
  /\ currentSelectedDay = ""
  /\ loading = Idle

NextFields ==
  \/ \E day \in FieldDays, status \in {NOT_COMPLETED, COMPLETED} :
       AddTask(GoodTitle, "1440", day, status) /\ counter' <= MaxFieldId + 1
  \/ AddTask(Title100, "50.7", "Monday", NOT_COMPLETED) /\ counter' <= MaxFieldId + 1
  \/ AddTask(GoodTitle, "1440", "Monday", Paused) /\ counter' <= MaxFieldId + 1
  \/ \E form \in BadFieldForms : AddTask(form[1], form[2], "Monday", NOT_COMPLETED)
  \/ \E taskId \in FieldIds : DeleteTask(taskId)
  \/ \E taskId \in FieldIds : UpdateStatus(taskId, MISSED) /\ counter' <= MaxFieldId + 1

SpecFields == InitFields /\ [][NextFields]_vars

(***************************************************************************)
(* Sessions with the remote database: users sign in (the auth listener     *)
(* loads their document), work, clear their data and log out, while the    *)
(* clock goes on.  A remote write may be rejected.                         *)
(***************************************************************************)
\* the title addTask stores for GoodTitle
StoredTitle == validateTaskTitle(GoodTitle).value

\* the ids of the tasks the page shows with their buttons
ShownIds == {tasks[i].id : i \in 1..Len(tasks)}

NoCall(op) == Last(op, NoError, NoId, "", FALSE, FALSE, NoBalance, NoId, "")

\* Date.now() has advanced
Tick ==
  /\ now < MaxNow
  /\ now' = now + 1
  /\ last' = NoCall("tick")
  /\ UNCHANGED <<tasks, dailyLimit, counter, uid, docs, issued, currentSelectedDay, loading>>

\* onAuthStateChanged(user): setUserFromAuth, load
SignIn(u) ==
  /\ uid = Guest
  /\ uid' = u
  /\ \E accepted \in BOOLEAN :
       LET r == load(tasks, dailyLimit, u, docs, accepted)
       IN /\ tasks' = r.tasks
          /\ dailyLimit' = r.dailyLimit
          /\ docs' = r.docs
          /\ last' = Last("signIn", IF r.ok THEN NoError ELSE SaveFailed, NoId, "", r.ok,
                          ~docs[u].exists, NoBalance, NoId, "")
  /\ UNCHANGED <<counter, now, issued, currentSelectedDay, loading>>

\* Handlers.handleLogout: signOut, reset, setUser("Guest")
Logout ==
  /\ tasks' = reset.tasks
  /\ dailyLimit' = reset.dailyLimit
  /\ counter' = reset.counter
  /\ currentSelectedDay' = reset.currentSelectedDay
  /\ uid' = Guest
  /\ last' = NoCall("logout")
  /\ UNCHANGED <<now, docs, issued, loading>>

\* Handlers.handleClearData: reset, save
ClearData ==
  /\ tasks' = reset.tasks
  /\ dailyLimit' = reset.dailyLimit
  /\ counter' = reset.counter
  /\ currentSelectedDay' = reset.currentSelectedDay
  /\ Persist(reset.tasks, reset.dailyLimit,
             Last("clearData", NoError, NoId, "", TRUE, TRUE, NoBalance, NoId, ""))
  /\ UNCHANGED <<now, uid, issued, loading>>

\* the store stays small: at most MaxCloudId tasks, none the copy of a copy
SmallStore(ts) ==
  /\ Len(ts) <= MaxCloudId
  /\ \A i \in 1..Len(ts) : Len(ts[i].title) <= Len(RescheduledPrefix) + Len(StoredTitle)

NextCloud ==
  \/ (AddTask(GoodTitle, "100", "Monday", NOT_COMPLETED)
        /\ counter' <= MaxCloudId + 1 /\ SmallStore(tasks'))
  \/ \E taskId \in ShownIds : DeleteTask(taskId)
  \/ \E taskId \in ShownIds :
       (UpdateStatus(taskId, MISSED) /\ counter' <= MaxCloudId + 1 /\ SmallStore(tasks'))
  \/ Tick
  \/ \E u \in Users : SignIn(u)
  \/ Logout
  \/ ClearData

SpecCloud == Init /\ [][NextCloud]_vars

(***************************************************************************)
(* One signed-in session, from the state the first sign-in leaves (load    *)
(* found no document and saved the empty store): every operation ends in a *)
(* remote write that may be rejected.                                      *)
(***************************************************************************)
InitSaving ==
  /\ tasks = <<>>
  /\ dailyLimit = DEFAULT_DAILY_LIMIT
  /\ counter = 1
  /\ last = NoCall("init")
  /\ now = StartTime
  /\ uid \in Users
  /\ docs = [u \in Users |->
               [exists |-> TRUE, tasks |-> <<>>, dailyLimit |-> DEFAULT_DAILY_LIMIT]]
  /\ issued = {}
  /\ currentSelectedDay = ""
  /\ loading = Idle

NextSaving ==
  \/ \E status \in {NOT_COMPLETED, COMPLETED} :
       AddTask(GoodTitle, "100", "Monday", status) /\ counter' <= MaxCloudId + 1
  \/ \E taskId \in ShownIds : DeleteTask(taskId)
  \/ \E taskId \in ShownIds, newStatus \in {MISSED, APPROACHING} :
       UpdateStatus(taskId, newStatus) /\ counter' <= MaxCloudId + 1

SpecSaving == InitSaving /\ [][NextSaving]_vars

(***************************************************************************)
(* The same session with the calls that fail as well: a form that does not *)
(* pass validation, the id of a task that is no longer (or never was) in   *)
(* the store, and a lowered limit so that addTask relocates a task before   *)
(* it saves.                                                               *)
(***************************************************************************)
\* an id the page still holds from an earlier session
StaleId == <<StartTime - 1, 1>>

PersistForms == {<<GoodTitle, "50">>, <<GoodTitle, "abc">>, <<<<>>, "50">>}

NextPersist ==
  \/ \E form \in PersistForms :
       AddTask(form[1], form[2], "Monday", NOT_COMPLETED) /\ counter' <= MaxCloudId + 1
  \/ \E taskId \in issued \cup {StaleId} : DeleteTask(taskId)
  \/ \E taskId \in issued \cup {StaleId}, newStatus \in {MISSED, COMPLETED} :
       UpdateStatus(taskId, newStatus) /\ counter' <= MaxCloudId + 1
  \/ UpdateSettings("50")

SpecPersist == InitSaving /\ [][NextPersist]_vars

(***************************************************************************)
(* autoBalance on its own, from the stores a session can leave behind:     *)
(* up to seven days each holding one completed task of 100 minutes, and up *)
(* to MaxMovers further tasks; the limit is the one a saved document holds *)
(* (AppStorage.load takes any finite number, 0 included).                  *)
(***************************************************************************)
Blockers(k) ==
  [i \in 1..k |-> [id |-> <<StartTime, i>>, title |-> StoredTitle, duration |-> 100,
                   day |-> DAYS[i], status |-> COMPLETED]]

MoverShapes ==
  [day : {"monday", "sunday"}, duration : {50, 100}, status : {NOT_COMPLETED, MISSED}]

Movers(k, shapes) ==
  [i \in 1..Len(shapes) |-> [id |-> <<StartTime, k + i>>, title |-> StoredTitle,
                             duration |-> shapes[i].duration,
                             day |-> shapes[i].day, status |-> shapes[i].status]]

BalanceLimits == {0, 50, 100}

BalanceDays == {DAYS[i] : i \in 1..Len(DAYS)} \cup {"Monday", "funday"}

InitBalance ==
  \E k \in 0..Len(DAYS), m \in 0..MaxMovers :
    \E shapes \in [1..m -> MoverShapes] :
      /\ tasks = Blockers(k) \o Movers(k, shapes)
      /\ dailyLimit \in BalanceLimits
      /\ counter = k + m + 1
      /\ last = Last("init", NoError, NoId, "", FALSE, FALSE, NoBalance, NoId, "")
      /\ now = StartTime
      /\ uid = Guest
      /\ docs = [u \in Users |-> NoDoc]
      /\ issued = {tasks[i].id : i \in 1..Len(tasks)}
      /\ currentSelectedDay = ""
      /\ loading = Idle

AutoBalance(day) ==
  LET r == autoBalance(tasks, dailyLimit, day)
  IN /\ tasks' = r.tasks
     /\ last' = Last("autoBalance", NoError, NoId, "", FALSE, FALSE, r.bal, NoId, "")
     /\ UNCHANGED <<dailyLimit, counter, now, uid, docs, issued, currentSelectedDay, loading>>

NextBalance == \E day \in BalanceDays : AutoBalance(day)

SpecBalance == InitBalance /\ [][NextBalance]_vars

(***************************************************************************)
(* The daily limit over a session: the settings form, clear data, logout   *)
(* and sign-in, which loads what the session saved, with tasks in the      *)
(* store.                                                                  *)
(***************************************************************************)
\* UI.showDayDetail: the day whose detail the page shows
ShowDayDetail(dayId) ==
  /\ currentSelectedDay' = dayId
  /\ last' = NoCall("showDayDetail")
  /\ UNCHANGED <<tasks, dailyLimit, counter, now, uid, docs, issued, loading>>

SettingsInputs == {"abc", "0", "-5", "50", "50.7", "1e3"}

NextSettings ==
  \/ (AddTask(GoodTitle, "100", "Monday", NOT_COMPLETED)
        /\ counter' <= MaxCloudId + 1 /\ SmallStore(tasks'))
  \/ \E raw \in SettingsInputs : UpdateSettings(raw)
  \/ ShowDayDetail("monday")
  \/ \E u \in Users : SignIn(u)
  \/ Logout
  \/ ClearData

SpecSettings == Init /\ [][NextSettings]_vars

(***************************************************************************)
(* The auth listener's load as the steps it takes: the listener sets the   *)
(* user and sends get(); the server reads the document; the await ends and *)
(* load writes the store.  Operations of the user run in between.          *)
(***************************************************************************)
\* onAuthStateChanged(user): setUserFromAuth, load as far as its await
AuthStateChanged(u) ==
  /\ uid = Guest
  /\ loading = Idle
  /\ uid' = u
  /\ loading' = [phase |-> "sent", uid |-> u, doc |-> NoDoc]
  /\ last' = NoCall("authStateChanged")
  /\ UNCHANGED <<tasks, dailyLimit, counter, now, docs, issued, currentSelectedDay>>

\* the server reads users/<uid>
GetServed ==
  /\ loading.phase = "sent"
  /\ loading' = [loading EXCEPT !.phase = "served", !.doc = docs[loading.uid]]
  /\ UNCHANGED <<tasks, dailyLimit, counter, last, now, uid, docs, issued, currentSelectedDay>>

\* AppStorage.load after `await get()`
LoadComplete ==
  /\ loading.phase = "served"
  /\ loading' = Idle
  /\ IF loading.doc.exists
     THEN /\ tasks' = loading.doc.tasks
          /\ dailyLimit' = loading.doc.dailyLimit
          /\ docs' = docs
          /\ last' = Last("load", NoError, NoId, "", TRUE, FALSE, NoBalance, NoId, "")
     ELSE \E accepted \in SaveOutcomes :
            LET s == save(tasks, dailyLimit, uid, docs, accepted)
            IN /\ tasks' = tasks
               /\ dailyLimit' = dailyLimit
               /\ docs' = s.docs
               /\ last' = Last("load", IF s.ok THEN NoError ELSE SaveFailed, NoId, "", s.ok,
                               TRUE, NoBalance, NoId, "")
  /\ UNCHANGED <<counter, now, uid, issued, currentSelectedDay>>

\* the record an earlier session of the user left, if any
EarlierDocs ==
  {NoDoc,
   [exists |-> TRUE, dailyLimit |-> DEFAULT_DAILY_LIMIT,
    tasks |-> <<[id |-> <<StartTime - 1, 1>>, title |-> StoredTitle, duration |-> 100,
                 day |-> "monday", status |-> NOT_COMPLETED]>>]}

InitAsync ==
  /\ tasks = <<>>
  /\ dailyLimit = DEFAULT_DAILY_LIMIT
  /\ counter = 1
  /\ last = NoCall("init")
  /\ now = StartTime
  /\ uid = Guest
  /\ docs \in [Users -> EarlierDocs]
  /\ issued = {}
  /\ currentSelectedDay = ""
  /\ loading = Idle

NextAsync ==
  \/ (AddTask(GoodTitle, "100", "Monday", NOT_COMPLETED)
        /\ counter' <= MaxCloudId + 1 /\ SmallStore(tasks'))
  \/ \E taskId \in ShownIds : DeleteTask(taskId)
  \/ \E taskId \in ShownIds : UpdateStatus(taskId, COMPLETED)
  \/ UpdateSettings("50")
  \/ \E u \in Users : AuthStateChanged(u)
  \/ GetServed
  \/ LoadComplete

SpecAsync == InitAsync /\ [][NextAsync]_vars

(***************************************************************************)
(* Validator and the day functions of Utils on their own: the first state  *)
(* holds the argument of a call, the actions make the call and then feed   *)
(* the result to the function again.  last is [op, arg, ret]; for the day  *)
(* functions arg is <<d, n>>: ret was reached from the day d by calls that *)
(* asked for n days ahead in all.                                          *)
(***************************************************************************)
MaxTitleLen == 3

MaxAhead == 14

TitleChars == {" ", "a", "&", "<", ">"}

TaggedLongTitle == <<"<", ">">> \o Title100

UtilTitles ==
  UNION {[1..n -> TitleChars] : n \in 0..MaxTitleLen}
    \cup {Title100, LongTitle, TaggedLongTitle}

UtilDurations == {"abc", "", "0", "-5", "1", "1e3", "50.7", "50min", "1440", "1441"}

UtilDays == {DAYS[i] : i \in 1..Len(DAYS)} \cup {"Monday", "FUNDAY", "funday"}

Call(op, arg, ret) == [op |-> op, arg |-> arg, ret |-> ret]

InitUtils ==
  /\ tasks = <<>>
  /\ dailyLimit = DEFAULT_DAILY_LIMIT
  /\ counter = 1
  /\ now = StartTime
  /\ uid = Guest
  /\ docs = [u \in Users |-> NoDoc]
  /\ issued = {}
  /\ currentSelectedDay = ""
  /\ loading = Idle
  /\ \/ \E title \in UtilTitles : last = Call("title", title, title)
     \/ \E duration \in UtilDurations : last = Call("duration", duration, duration)
     \/ \E day \in UtilDays : last = Call("day", <<day, 0>>, day)

ValidateTaskTitle ==
  /\ last.op = "title"
  /\ last' = Call("validateTaskTitle", last.arg, validateTaskTitle(last.arg))
  /\ UNCHANGED <<tasks, dailyLimit, counter, now, uid, docs, issued, currentSelectedDay, loading>>

\* the accepted value is validated again
RevalidateTaskTitle ==
  /\ last.op = "validateTaskTitle"
  /\ last.ret.valid
  /\ last' = Call("revalidateTaskTitle", last.ret.value, validateTaskTitle(last.ret.value))
  /\ UNCHANGED <<tasks, dailyLimit, counter, now, uid, docs, issued, currentSelectedDay, loading>>

ValidateDuration ==
  /\ last.op = "duration"
  /\ last' = Call("validateDuration", last.arg, validateDuration(last.arg))
  /\ UNCHANGED <<tasks, dailyLimit, counter, now, uid, docs, issued, currentSelectedDay, loading>>

\* the accepted value, a number, is validated again
RevalidateDuration ==
  /\ last.op = "validateDuration"
  /\ last.ret.valid
  /\ last' = Call("revalidateDuration", last.ret.value,
                  validateDuration(NumberString(last.ret.value)))
  /\ UNCHANGED <<tasks, dailyLimit, counter, now, uid, docs, issued, currentSelectedDay, loading>>

GetDayIndex ==
  /\ last.op = "day"
  /\ last' = Call("getDayIndex", last.arg[1], getDayIndex(last.arg[1]))
  /\ UNCHANGED <<tasks, dailyLimit, counter, now, uid, docs, issued, currentSelectedDay, loading>>

DayCalls == {"day", "getNextDay", "getDayAhead"}

GetNextDay ==
  /\ last.op \in DayCalls
  /\ last.arg[2] + 1 <= MaxAhead
  /\ last' = Call("getNextDay", <<last.arg[1], last.arg[2] + 1>>, getNextDay(last.ret))
  /\ UNCHANGED <<tasks, dailyLimit, counter, now, uid, docs, issued, currentSelectedDay, loading>>

GetDayAhead(daysAhead) ==
  /\ last.op \in DayCalls
  /\ last.arg[2] + daysAhead <= MaxAhead
  /\ last' = Call("getDayAhead", <<last.arg[1], last.arg[2] + daysAhead>>,
                  getDayAhead(last.ret, daysAhead))
  /\ UNCHANGED <<tasks, dailyLimit, counter, now, uid, docs, issued, currentSelectedDay, loading>>

NextUtils ==
  \/ ValidateTaskTitle
  \/ RevalidateTaskTitle
  \/ ValidateDuration
  \/ RevalidateDuration
  \/ GetDayIndex
  \/ GetNextDay
  \/ \E daysAhead \in 0..MaxAhead : GetDayAhead(daysAhead)

SpecUtils == InitUtils /\ [][NextUtils]_vars

(***************************************************************************)
(* TaskManager.getStatistics on the stores a session can have built: every *)
(* store of up to MaxStatTasks tasks, and the stores of up to MaxTasks     *)
(* tasks of which the first ones are completed.                            *)
(***************************************************************************)
MaxStatTasks == 2

MaxTasks == 40

StatDurations == <<1, 50, 1440>>

OpenStatuses == <<NOT_COMPLETED, APPROACHING, MISSED>>

StatTask(i, status, duration) ==
  [id |-> <<StartTime, i>>, title |-> StoredTitle, duration |-> duration,
   day |-> DAYS[(i % 7) + 1], status |-> status]

SmallStores ==
  UNION {{[i \in 1..n |-> StatTask(i, shape[i][1], shape[i][2])] :
            shape \in [1..n -> STATUS \X {StatDurations[k] : k \in 1..3}]} :
         n \in 0..MaxStatTasks}

LargeStores ==
  {[i \in 1..n |-> StatTask(i, IF i <= c THEN COMPLETED ELSE OpenStatuses[(i % 3) + 1],
                            StatDurations[(i % 3) + 1])] :
     n \in 1..MaxTasks, c \in 0..MaxTasks}

InitStats ==
  /\ tasks \in SmallStores \cup LargeStores
  /\ dailyLimit = DEFAULT_DAILY_LIMIT
  /\ counter = Len(tasks) + 1
  /\ last = Call("init", <<>>, <<>>)
  /\ now = StartTime
  /\ uid = Guest
  /\ docs = [u \in Users |-> NoDoc]
  /\ issued = {tasks[i].id : i \in 1..Len(tasks)}
  /\ currentSelectedDay = ""
  /\ loading = Idle

GetStatistics ==
  /\ last' = Call("getStatistics", <<>>, getStatistics(tasks))
  /\ UNCHANGED <<tasks, dailyLimit, counter, now, uid, docs, issued, currentSelectedDay, loading>>

NextStats == GetStatistics

SpecStats == InitStats /\ [][NextStats]_vars

(***************************************************************************)
(* autoBalance on the stores of a day: up to MaxDayTasks tasks, of every   *)
(* status on Monday or not completed on Tuesday, alone or next to one      *)
(* approaching task of 100 minutes on each day of the week, under a limit  *)
(* of 100 or 150.                                                          *)
(***************************************************************************)
MaxDayTasks == 2

Holders(k) ==
  [i \in 1..k |-> [id |-> <<StartTime, i>>, title |-> StoredTitle, duration |-> 100,
                   day |-> DAYS[i], status |-> APPROACHING]]

DayShapes ==
  [day : {"monday"}, duration : {40, 50, 60, 80, 100}, status : {NOT_COMPLETED}]
    \cup [day : {"monday"}, duration : {100}, status : {COMPLETED, APPROACHING, MISSED}]
    \cup [day : {"tuesday"}, duration : {100}, status : {NOT_COMPLETED}]

DayLimits == {100, DEFAULT_DAILY_LIMIT}

InitDay ==
  \E k \in {0, Len(DAYS)}, m \in 0..MaxDayTasks :
    \E shapes \in [1..m -> DayShapes] :
      /\ tasks = Holders(k) \o Movers(k, shapes)
      /\ dailyLimit \in DayLimits
      /\ counter = k + m + 1
      /\ last = NoCall("init")
      /\ now = StartTime
      /\ uid = Guest
      /\ docs = [u \in Users |-> NoDoc]
      /\ issued = {tasks[i].id : i \in 1..Len(tasks)}
      /\ currentSelectedDay = ""
      /\ loading = Idle

NextDay == \E day \in {"monday", "tuesday", "Monday"} : AutoBalance(day)

SpecDay == InitDay /\ [][NextDay]_vars

(***************************************************************************)
(* Definitions the properties are stated with.                             *)
(***************************************************************************)
DayNames == {DAYS[i] : i \in 1..Len(DAYS)}

HasId(ts, id) == \E i \in 1..Len(ts) : ts[i].id = id

TaskById(ts, id) == ts[CHOOSE i \in 1..Len(ts) : ts[i].id = id]

RECURSIVE SumOver(_, _)
SumOver(ts, S) ==
  IF S = {} THEN 0
  ELSE LET i == CHOOSE j \in S : TRUE IN ts[i].duration + SumOver(ts, S \ {i})

\* the non-missed total of a day as the data model defines it
NonMissedTotal(ts, d) ==
  SumOver(ts, {i \in 1..Len(ts) : ts[i].day = d /\ ts[i].status # MISSED})

\* the day n positions after d in the week, for d one of the seven days
Ahead(d, n) == DAYS[(((CHOOSE k \in 1..7 : DAYS[k] = d) - 1 + n) % 7) + 1]

\* the last call was updateStatus(id, missed) and it returned
MissedDone == last.op = "updateStatus" /\ last.arg = MISSED /\ last.err = NoError

(***************************************************************************)
(* C1: updateStatus(id, missed) on a task of the store throws when the     *)
(* task is completed; from every other status it returns, the task is      *)
(* missed afterwards and the store holds exactly one task more.            *)
(***************************************************************************)
C1_MissedTransitionLaw ==
  [][\A id \in TaskIds :
       (last'.op = "updateStatus" /\ last'.id = id /\ last'.arg = MISSED /\ HasId(tasks, id))
         => IF TaskById(tasks, id).status = COMPLETED
            THEN last'.err # NoError /\ Len(tasks') = Len(tasks)
            ELSE /\ last'.err = NoError
                 /\ TaskById(tasks', id).status = MISSED
                 /\ Len(tasks') = Len(tasks) + 1]_vars

C1_Witness ==
  /\ MissedDone
  /\ HasId(tasks, last.id) /\ TaskById(tasks, last.id).status = MISSED
  /\ HasId(tasks, last.spawned)

(***************************************************************************)
(* C2: updateStatus(id, s) returns for every pair of current status and s  *)
(* except completed -> missed; it throws TaskNotFound for an absent id and *)
(* IllegalTransition for completed -> missed, and a call that throws       *)
(* changes no task, not the limit, and reschedules, balances and saves     *)
(* nothing.                                                                *)
(***************************************************************************)
C2_StatusTransitions ==
  [][\A id \in TaskIds, s \in STATUS :
       (last'.op = "updateStatus" /\ last'.id = id /\ last'.arg = s)
         => /\ last'.err = (IF ~HasId(tasks, id) THEN TaskNotFound
                            ELSE IF TaskById(tasks, id).status = COMPLETED /\ s = MISSED
                            THEN IllegalTransition
                            ELSE NoError)
            /\ last'.err = NoError => TaskById(tasks', id).status = s
            /\ last'.err # NoError =>
                 /\ tasks' = tasks
                 /\ dailyLimit' = dailyLimit
                 /\ counter' = counter
                 /\ ~last'.saved
                 /\ ~last'.bal.ran
                 /\ last'.spawned = NoId]_vars

C2_Witness ==
  /\ last.op = "updateStatus" /\ last.err = IllegalTransition
  /\ TaskById(tasks, last.id).status = COMPLETED
  /\ Len(tasks) >= 2

(***************************************************************************)
(* C3: after updateStatus(id, missed) has returned, the task it spawned is *)
(* on the day 3 positions ahead (mod 7) of the original task's day.  The   *)
(* original is missed, so it has not moved since the transition.           *)
(***************************************************************************)
C3_RescheduleOffset ==
  MissedDone =>
    /\ TaskById(tasks, last.id).day \in DayNames
    /\ TaskById(tasks, last.spawned).day = Ahead(TaskById(tasks, last.id).day, 3)

(***************************************************************************)
(* C4: the task spawned by a missed transition has an id no other task of  *)
(* the store has, the original's title after "RESCHEDULED: ", its duration *)
(* and status not-completed; the original changes in nothing but its       *)
(* status, which is missed, getTasksByDay still returns it for its day and *)
(* the day's total does not count it.                                      *)
(***************************************************************************)
C4_RescheduledCopy ==
  [][(last'.op = "updateStatus" /\ last'.arg = MISSED /\ last'.err = NoError)
       => LET orig == TaskById(tasks, last'.id)
              kept == TaskById(tasks', last'.id)
              copy == TaskById(tasks', last'.spawned)
              others == SelectSeq(tasks', LAMBDA t : t.id # last'.id)
          IN /\ ~HasId(tasks, last'.spawned)
             /\ Cardinality({i \in 1..Len(tasks') : tasks'[i].id = last'.spawned}) = 1
             /\ copy.title = <<"R", "E", "S", "C", "H", "E", "D", "U", "L", "E", "D", ":", " ">>
                               \o orig.title
             /\ copy.duration = orig.duration
             /\ copy.status = NOT_COMPLETED
             /\ kept = [orig EXCEPT !.status = MISSED]
             /\ \E i \in 1..Len(getTasksByDay(tasks', kept.day)) :
                  getTasksByDay(tasks', kept.day)[i] = kept
             /\ calculateDayTime(tasks', kept.day) = NonMissedTotal(others, kept.day)]_vars

C4_Witness ==
  /\ MissedDone
  /\ HasId(tasks, last.spawned)
  /\ TaskById(tasks, last.spawned).title = RescheduledPrefix \o TaskById(tasks, last.id).title
  /\ NonMissedTotal(tasks, TaskById(tasks, last.id).day) > 0

(***************************************************************************)
(* C5: one run of autoBalance executes its loop body at most 7 times and   *)
(* relocates at most 7 tasks, at most one per execution of the body and at *)
(* most one out of any day.                                                *)
(***************************************************************************)
C5_BoundedBalance ==
  last.bal.ran =>
    /\ last.bal.iters <= 7
    /\ Len(last.bal.moved) <= 7
    /\ Len(last.bal.moved) <= last.bal.iters
    /\ \A i, j \in 1..Len(last.bal.moved) :
         i # j => last.bal.moved[i].from # last.bal.moved[j].from

C5_Witness == last.bal.ran /\ Len(last.bal.moved) = 7 /\ dailyLimit > 0

(***************************************************************************)
(* C6: when autoBalance has returned, the day its loop stopped at has a    *)
(* non-missed total <= dailyLimit, or the run showed a warning.            *)
(***************************************************************************)
C6_StoppedBalancedOrWarned ==
  last.bal.ran =>
    \/ NonMissedTotal(tasks, last.bal.stop) <= dailyLimit
    \/ last.bal.warn # <<>>

C6_Witness ==
  /\ last.bal.ran
  /\ last.bal.warn = <<>>
  /\ last.bal.moved # <<>>
  /\ NonMissedTotal(tasks, last.bal.stop) <= dailyLimit

(***************************************************************************)
(* C7, as claimed: when autoBalance has returned without a warning, the    *)
(* day it started at and every day it relocated a task out of have a       *)
(* non-missed total <= dailyLimit.                                         *)
(***************************************************************************)
C7_NoDayOverLimit ==
  (last.bal.ran /\ last.bal.warn = <<>>) =>
    /\ NonMissedTotal(tasks, last.bal.start) <= dailyLimit
    /\ \A i \in 1..Len(last.bal.moved) :
         NonMissedTotal(tasks, last.bal.moved[i].from) <= dailyLimit

(***************************************************************************)
(* C7, amended: when autoBalance has returned without a warning, the day   *)
(* its loop stopped at has a non-missed total <= dailyLimit, which is the  *)
(* day it started at when it relocated nothing; a day it relocated a task  *)
(* out of has a total >= dailyLimit, so it is within the limit only when   *)
(* it is exactly at the limit.                                             *)
(***************************************************************************)
C7_StopDayWithinLimit ==
  (last.bal.ran /\ last.bal.warn = <<>>) =>
    /\ NonMissedTotal(tasks, last.bal.stop) <= dailyLimit
    /\ last.bal.moved = <<>> => last.bal.stop = last.bal.start
    /\ \A i \in 1..Len(last.bal.moved) :
         NonMissedTotal(tasks, last.bal.moved[i].from) >= dailyLimit

C7_Witness ==
  /\ last.bal.ran
  /\ last.bal.warn = <<>>
  /\ \E i \in 1..Len(last.bal.moved) :
       NonMissedTotal(tasks, last.bal.moved[i].from) > dailyLimit

(***************************************************************************)
(* C8: for every day, calculateDayTime is the sum of the durations of the  *)
(* tasks on that day whose status is not missed, so that dropping the      *)
(* missed tasks from the store changes no day's total.                     *)
(***************************************************************************)
C8_DayTotalExcludesMissed ==
  /\ \A d \in DayNames : calculateDayTime(tasks, d) = NonMissedTotal(tasks, d)
  /\ calculateDayTime(tasks, "Monday") = NonMissedTotal(tasks, "monday")
  /\ \A d \in DayNames :
       calculateDayTime(SelectSeq(tasks, LAMBDA t : t.status # MISSED), d)
         = calculateDayTime(tasks, d)

C8_Witness ==
  \E i, j \in 1..Len(tasks) :
    /\ tasks[i].status = MISSED
    /\ tasks[j].status # MISSED
    /\ tasks[i].day = tasks[j].day
    /\ calculateDayTime(tasks, tasks[i].day) = tasks[j].duration

(***************************************************************************)
(* C9: an addTask whose title or duration the validators reject throws     *)
(* before it changes anything: the tasks, the limit and the id counter are *)
(* as before, and it neither balances nor saves.                           *)
(***************************************************************************)
C9_RejectedAddChangesNothing ==
  [][(last'.op = "addTask" /\ last'.err \in ValidationErrors)
       => /\ tasks' = tasks
          /\ dailyLimit' = dailyLimit
          /\ counter' = counter
          /\ ~last'.bal.ran
          /\ ~last'.saved]_vars

C9_Witness ==
  /\ last.op = "addTask"
  /\ last.err \in {NotANumber, NonPositiveDuration, DurationTooLarge}
  /\ tasks # <<>>

(***************************************************************************)
(* C10: every task's day is one of the seven day names.                    *)
(***************************************************************************)
C10_DaysValid == \A i \in 1..Len(tasks) : tasks[i].day \in DayNames

(***************************************************************************)
(* C11: every task's duration is an integer from 1 to 1440.                *)
(***************************************************************************)
C11_DurationsValid ==
  \A i \in 1..Len(tasks) : tasks[i].duration \in 1..MAX_TASK_DURATION

C11_Witness ==
  /\ MissedDone
  /\ TaskById(tasks, last.spawned).duration = MAX_TASK_DURATION

(***************************************************************************)
(* C12: every task's title has at most 100 characters.                     *)
(***************************************************************************)
C12_TitlesShort ==
  \A i \in 1..Len(tasks) : Len(tasks[i].title) <= MAX_TITLE_LENGTH

(***************************************************************************)
(* C13: every task's status is one of completed, not-completed,            *)
(* approaching, missed.                                                    *)
(***************************************************************************)
C13_StatusesValid == \A i \in 1..Len(tasks) : tasks[i].status \in STATUS

(***************************************************************************)
(* C16: an addTask or an updateStatus(id, missed) whose autoBalance run    *)
(* showed a warning returns all the same: the new task, or the rescheduled *)
(* copy, is one task more in the store, the status change is applied and   *)
(* the save is issued.                                                     *)
(***************************************************************************)
C16_WarningDoesNotFail ==
  [][(last'.op \in {"addTask", "updateStatus"} /\ last'.bal.warn # <<>>)
       => /\ last'.err = NoError
          /\ last'.ret
          /\ last'.saved
          /\ Len(tasks') = Len(tasks) + 1
          /\ last'.op = "addTask" =>
               /\ ~HasId(tasks, last'.id)
               /\ HasId(tasks', last'.id)
          /\ last'.op = "updateStatus" =>
               /\ last'.arg = MISSED
               /\ TaskById(tasks', last'.id).status = MISSED
               /\ ~HasId(tasks, last'.spawned)
               /\ HasId(tasks', last'.spawned)]_vars

C16_Witness ==
  /\ MissedDone
  /\ last.bal.warn = <<CannotBalance>>
  /\ last.saved
  /\ HasId(tasks, last.spawned)
  /\ TaskById(tasks, last.id).status = MISSED

\* the autoBalance run recorded in l relocated the task l.id on each of its
\* 7 iterations, day by day, showed the cannot-balance warning and left the
\* task, the only one of the store ts, 7 positions after the day it started at
ParkedSevenAhead(ts, l) ==
  /\ l.bal.start \in DayNames
  /\ l.bal.iters = 7
  /\ Len(l.bal.moved) = 7
  /\ \A i \in 1..Len(l.bal.moved) :
       /\ l.bal.moved[i].id = l.id
       /\ l.bal.moved[i].from = Ahead(l.bal.start, i - 1)
       /\ l.bal.moved[i].to = Ahead(l.bal.start, i)
  /\ l.bal.warn = <<CannotBalance>>
  /\ Len(ts) = 1
  /\ ts[1].id = l.id
  /\ ts[1].day = Ahead(l.bal.start, 7)

(***************************************************************************)
(* C17, as claimed: with dailyLimit = 0, an addTask on the empty store     *)
(* that returns has relocated the task on each of 7 iterations, warned     *)
(* cannot-balance and left the task 7 positions after its day.             *)
(***************************************************************************)
C17_ZeroLimitParksAnyTask ==
  [][(last'.op = "addTask" /\ last'.err = NoError /\ dailyLimit = 0 /\ tasks = <<>>)
       => ParkedSevenAhead(tasks', last')]_vars

(***************************************************************************)
(* C17, amended: that holds when the task is added as not-completed; a     *)
(* task added with another status is never relocated and cannot-balance    *)
(* is not shown.                                                           *)
(***************************************************************************)
C17_ZeroLimitParksOpenTask ==
  [][(last'.op = "addTask" /\ last'.err = NoError /\ dailyLimit = 0 /\ tasks = <<>>)
       => IF last'.arg = NOT_COMPLETED
          THEN ParkedSevenAhead(tasks', last')
          ELSE /\ last'.bal.moved = <<>>
               /\ last'.bal.warn # <<CannotBalance>>
               /\ Len(tasks') = 1
               /\ tasks'[1].day = last'.bal.start]_vars

C17_Witness ==
  /\ last.op = "addTask"
  /\ last.arg = NOT_COMPLETED
  /\ dailyLimit = 0
  /\ ParkedSevenAhead(tasks, last)
  /\ last.bal.start = "sunday"
  /\ tasks[1].day = "sunday"

(***************************************************************************)
(* C18: an updateStatus(id, s) with s other than missed that returns       *)
(* changes the status of the task with that id and nothing else: every     *)
(* other task and every other field is as before, no task is added or      *)
(* removed, the limit and the id counter are as before, and neither        *)
(* rescheduleTask nor autoBalance runs.                                    *)
(***************************************************************************)
C18_StatusChangeOnly ==
  [][(last'.op = "updateStatus" /\ last'.err = NoError /\ last'.arg # MISSED)
       => /\ Len(tasks') = Len(tasks)
          /\ \A i \in 1..Len(tasks) :
               tasks'[i] = IF tasks[i].id = last'.id
                           THEN [tasks[i] EXCEPT !.status = last'.arg]
                           ELSE tasks[i]
          /\ dailyLimit' = dailyLimit
          /\ counter' = counter
          /\ ~last'.bal.ran
          /\ last'.spawned = NoId]_vars

\* a task that was missed (its copy is in the store) is counted again and its
\* day is over the limit
C18_Witness ==
  /\ last.op = "updateStatus" /\ last.err = NoError /\ last.arg = NOT_COMPLETED
  /\ ~last.bal.ran
  /\ \E j \in 1..Len(tasks) :
       tasks[j].title = RescheduledPrefix \o TaskById(tasks, last.id).title
  /\ NonMissedTotal(tasks, TaskById(tasks, last.id).day) > dailyLimit

(***************************************************************************)
(* C19: deleteTask(id) returns whether the store held a task with that id. *)
(* If it did, that task is gone, the others are as before and in the same  *)
(* order, and the store is saved; if not, the store is as before and       *)
(* nothing is saved.  Either way it neither balances nor reschedules and   *)
(* leaves the limit and the id counter alone.                              *)
(***************************************************************************)
C19_DeleteRemovesOne ==
  [][(last'.op = "deleteTask")
       => /\ last'.ret = HasId(tasks, last'.id)
          /\ tasks' = SelectSeq(tasks, LAMBDA t : t.id # last'.id)
          /\ HasId(tasks, last'.id) => (Len(tasks') = Len(tasks) - 1 /\ last'.saved)
          /\ ~HasId(tasks, last'.id) => (tasks' = tasks /\ ~last'.saved)
          /\ dailyLimit' = dailyLimit
          /\ counter' = counter
          /\ ~last'.bal.ran
          /\ last'.spawned = NoId]_vars

C19_Witness ==
  /\ last.op = "deleteTask" /\ last.ret /\ last.saved
  /\ ~HasId(tasks, last.id)
  /\ Len(tasks) = 2
  /\ tasks[1].id = <<StartTime, 1>> /\ tasks[2].id = <<StartTime, 3>>

(***************************************************************************)
(* C14: no two tasks of the store have the same id.                        *)
(***************************************************************************)
C14_IdsUnique ==
  \A i, j \in 1..Len(tasks) : i # j => tasks[i].id # tasks[j].id

(***************************************************************************)
(* C15: IDGenerator.generate never returns an id it has returned before.   *)
(***************************************************************************)
C15_GenerateFresh == [][Generated(last') \cap issued = {}]_vars

\* the in-memory effect of the call recorded in l, from the store ts to ts1
Applied(ts, ts1, l) ==
  CASE l.op = "addTask" ->
         /\ Len(ts1) = Len(ts) + 1
         /\ ~HasId(ts, l.id) /\ HasId(ts1, l.id)
    [] l.op = "deleteTask" ->
         /\ Len(ts1) = Len(ts) - 1
         /\ HasId(ts, l.id) /\ ~HasId(ts1, l.id)
    [] l.op = "updateStatus" ->
         /\ TaskById(ts1, l.id).status = l.arg
         /\ Len(ts1) = Len(ts) + (IF l.arg = MISSED THEN 1 ELSE 0)
         /\ l.arg = MISSED => (~HasId(ts, l.spawned) /\ HasId(ts1, l.spawned))
    [] OTHER -> FALSE

(***************************************************************************)
(* C20: when addTask, deleteTask or updateStatus calls save, the whole     *)
(* change to the store is made by then: an accepted save leaves the user's *)
(* document holding the store as it is after the call; a rejected save is  *)
(* thrown to the caller, leaves the document as it was, and the change to  *)
(* the store stays.                                                        *)
(***************************************************************************)
C20_SaveAfterMutation ==
  [][(last'.op \in {"addTask", "deleteTask", "updateStatus"} /\ last'.saved)
       => /\ Applied(tasks, tasks', last')
          /\ \/ /\ last'.err = NoError
                /\ last'.ret
                /\ docs'[uid] = [exists |-> TRUE, tasks |-> tasks', dailyLimit |-> dailyLimit']
             \/ /\ last'.err = SaveFailed
                /\ ~last'.ret
                /\ docs' = docs]_vars

C20_Witness ==
  /\ last.op = "updateStatus" /\ last.arg = MISSED /\ last.err = SaveFailed
  /\ TaskById(tasks, last.id).status = MISSED
  /\ HasId(tasks, last.spawned)
  /\ docs[uid].tasks # tasks
  /\ Len(docs[uid].tasks) = 1

(***************************************************************************)
(* Definitions the properties of Validator and Utils are stated with.      *)
(***************************************************************************)
\* the day tokens getDayIndex is written for, in any of the spellings fed in
Recognized == {d \in UtilDays : ToLowerCase(d) \in DayNames}

Entities == {<<"&", "a", "m", "p", ";">>, <<"&", "l", "t", ";">>, <<"&", "g", "t", ";">>}

EntityAt(v, i) ==
  \E e \in Entities : i + Len(e) - 1 <= Len(v) /\ SubSeq(v, i, i + Len(e) - 1) = e

\* no raw '<' or '>', and every '&' opens one of the three entities
Neutralized(v) ==
  \A i \in 1..Len(v) : v[i] \notin {"<", ">"} /\ (v[i] = "&" => EntityAt(v, i))

Trimmed(v) == v = <<>> \/ (v[1] # " " /\ v[Len(v)] # " ")

Blank(t) == \A i \in 1..Len(t) : t[i] = " "

TagPattern(t) == \E i \in 1..Len(t) : \E j \in 1..Len(t) : i < j /\ t[i] = "<" /\ t[j] = ">"

\* num / den rounded to the nearest integer, a half going up
RoundHalfUp(num, den) == (2 * num + den) \div (2 * den)

CountOf(ts, status) == Cardinality({i \in 1..Len(ts) : ts[i].status = status})

(***************************************************************************)
(* C24: title sanitization is idempotent: when validateTaskTitle accepts a *)
(* title with value v, validateTaskTitle(v) is accepted and returns v.     *)
(***************************************************************************)
C24_TitleIdempotent ==
  last.op = "revalidateTaskTitle" => last.ret.valid /\ last.ret.value = last.arg

(***************************************************************************)
(* C25: validateDuration fails with NotANumber when parseInt gives NaN,    *)
(* with NonPositiveDuration when the parsed value is <= 0, with            *)
(* DurationTooLarge when it is > 1440, and otherwise returns the parsed    *)
(* integer; "1" and "1440" are accepted, "0" and "1441" rejected; an       *)
(* accepted value validated again is returned unchanged.                   *)
(***************************************************************************)
C25_DurationClassified ==
  /\ last.op = "validateDuration" =>
       LET p == ParseInt(last.arg)
           r == last.ret
       IN /\ p.nan => ~r.valid /\ r.error = NotANumber
          /\ ~p.nan /\ p.num <= 0 => ~r.valid /\ r.error = NonPositiveDuration
          /\ ~p.nan /\ p.num > 1440 => ~r.valid /\ r.error = DurationTooLarge
          /\ ~p.nan /\ p.num \in 1..1440 => r.valid /\ r.value = p.num
          /\ last.arg \in {"1", "1440"} => r.valid
          /\ last.arg \in {"0", "1441"} => ~r.valid
  /\ last.op = "revalidateDuration" => last.ret.valid /\ last.ret.value = last.arg

C25_Witness ==
  /\ last.op = "revalidateDuration"
  /\ last.arg = 1440
  /\ last.ret.valid
  /\ last.ret.value = 1440

(***************************************************************************)
(* C26: an accepted title yields a value that is trimmed and holds no raw  *)
(* '<' or '>' and no '&' outside an entity; a title is rejected exactly    *)
(* when it is blank after trimming (EmptyTitle), longer than 100           *)
(* characters (TitleTooLong) or holds a '<...>' pattern                    *)
(* (MarkupNotAllowed), the first of the three that applies naming the      *)
(* error.                                                                  *)
(***************************************************************************)
C26_TitleSanitized ==
  last.op = "validateTaskTitle" =>
    LET t == last.arg
        r == last.ret
    IN /\ r.valid <=> ~Blank(t) /\ Len(t) <= 100 /\ ~TagPattern(t)
       /\ r.valid => Trimmed(r.value) /\ Neutralized(r.value)
       /\ Blank(t) => r.error = EmptyTitle
       /\ ~Blank(t) /\ Len(t) > 100 => r.error = TitleTooLong
       /\ ~Blank(t) /\ Len(t) <= 100 /\ TagPattern(t) => r.error = MarkupNotAllowed

C26_Witness ==
  /\ last.op = "validateTaskTitle"
  /\ last.arg = <<" ", "&", "<">>
  /\ last.ret.valid
  /\ last.ret.value = <<"&", "a", "m", "p", ";", "&", "l", "t", ";">>

(***************************************************************************)
(* C27: getDayIndex returns 0..6 for the seven days and does not return    *)
(* for an unrecognized token; getNextDay and getDayAhead never return a    *)
(* day when they started from an unrecognized token.                       *)
(***************************************************************************)
C27_UnknownDayRejected ==
  /\ last.op = "getDayIndex" => last.arg \in Recognized /\ last.ret \in 0..6
  /\ last.op \in {"getNextDay", "getDayAhead"} /\ last.ret \in DayNames
       => last.arg[1] \in Recognized

(***************************************************************************)
(* C28: for a day d and n >= 0, getDayAhead(d, n) is the day at index      *)
(* (getDayIndex(d) + n) mod 7, also when the n days are asked for in       *)
(* several calls; getNextDay is getDayAhead by 1; 7 days ahead is d again. *)
(***************************************************************************)
C28_DayAheadModular ==
  /\ [](last.op \in {"getNextDay", "getDayAhead"} /\ last.arg[1] \in DayNames
          => /\ last.ret = Ahead(last.arg[1], last.arg[2])
             /\ last.arg[2] = 7 => last.ret = last.arg[1])
  /\ [][last'.op = "getNextDay" /\ last.ret \in DayNames
          => last'.ret = getDayAhead(last.ret, 1)]_vars

C28_Witness ==
  /\ last.op = "getNextDay"
  /\ last.arg = <<"sunday", 7>>
  /\ last.ret = "sunday"

(***************************************************************************)
(* C29: getStatistics returns total = the number of tasks = the sum of the *)
(* four per-status counts, totalMinutes = the sum of the durations,        *)
(* avgDuration = totalMinutes / total rounded, completionRate =            *)
(* 100 * completed / total rounded, both 0 on the empty store, and a       *)
(* completionRate from 0 to 100.                                           *)
(***************************************************************************)
C29_Statistics ==
  last.op = "getStatistics" =>
    LET s == last.ret
        n == Len(tasks)
    IN /\ s.total = n
       /\ s.total = s.completed + s.notCompleted + s.approaching + s.missed
       /\ s.completed = CountOf(tasks, COMPLETED)
       /\ s.totalMinutes = SumOver(tasks, 1..n)
       /\ n = 0 => s.avgDuration = 0 /\ s.completionRate = 0
       /\ n > 0 => /\ s.avgDuration = RoundHalfUp(s.totalMinutes, n)
                   /\ s.completionRate = RoundHalfUp(100 * s.completed, n)
       /\ s.completionRate \in 0..100

(***************************************************************************)
(* C30: through settings updates, resets and loads of what the session     *)
(* saved, dailyLimit is a positive integer, 150 at the start and after a   *)
(* reset; the settings form rejects exactly the values that are not a      *)
(* number or not positive, a rejected update leaves dailyLimit and the     *)
(* tasks as they were, and an accepted one changes no task.                *)
(***************************************************************************)
C30_LimitPositive ==
  /\ [](/\ dailyLimit \in Nat
        /\ dailyLimit > 0
        /\ last.op \in {"init", "logout", "clearData"} => dailyLimit = DEFAULT_DAILY_LIMIT
        /\ \A raw \in SettingsInputs :
             (ParseInt(raw).nan \/ ParseInt(raw).num <= 0)
               <=> handleUpdateSettings(dailyLimit, raw).last.err = BadLimit)
  /\ [][last'.op = "updateSettings"
          => /\ tasks' = tasks
             /\ counter' = counter
             /\ last'.err = BadLimit => dailyLimit' = dailyLimit /\ docs' = docs]_vars

C30_Witness ==
  /\ last.op = "updateSettings"
  /\ last.err = NoError
  /\ dailyLimit = 50
  /\ Len(tasks) = 2
  /\ \A i \in 1..2 : tasks[i].day = "monday" /\ tasks[i].duration = 100

(***************************************************************************)
(* C23: clear data and logout leave the store cleared whatever it held:    *)
(* no task, dailyLimit 150, no selected day.                               *)
(***************************************************************************)
C23_ResetClears ==
  [][last'.op \in {"clearData", "logout"}
       => tasks' = <<>> /\ dailyLimit' = 150 /\ currentSelectedDay' = ""]_vars

C23_Witness ==
  /\ last.op = "logout"
  /\ docs["u1"].exists
  /\ docs["u1"].tasks # <<>>
  /\ docs["u1"].dailyLimit = 50
  /\ tasks = <<>>
  /\ dailyLimit = 150
  /\ currentSelectedDay = ""

(***************************************************************************)
(* C22: when a user without a saved record signs in, load returns the      *)
(* defaults (no task, dailyLimit 150) whatever the session did before, and *)
(* the record written for the user holds none of the earlier tasks.        *)
(***************************************************************************)
C22_NewUserGetsDefaults ==
  [][last'.op = "signIn" /\ ~docs[uid'].exists
       => /\ tasks' = <<>>
          /\ dailyLimit' = 150
          /\ docs'[uid'].exists => docs'[uid'].tasks = <<>> /\ docs'[uid'].dailyLimit = 150]_vars

(***************************************************************************)
(* C21: a load that completes right after an operation of the user has     *)
(* returned leaves the store as the operation left it: the added task is   *)
(* there, the deleted task is not, the status and the limit are the ones   *)
(* set.                                                                    *)
(***************************************************************************)
C21_LoadKeepsMutation ==
  [][last'.op = "load" /\ last.err = NoError
       => /\ last.op = "addTask" => HasId(tasks', last.id)
          /\ last.op = "deleteTask" => ~HasId(tasks', last.id)
          /\ last.op = "updateStatus"
               => HasId(tasks', last.id) /\ TaskById(tasks', last.id).status = last.arg
          /\ last.op = "updateSettings" => dailyLimit' = dailyLimit]_vars

(***************************************************************************)
(* Definitions the properties of single relocations are stated with.       *)
(***************************************************************************)
\* the store before the k-th relocation of a run that started from ts and
\* made the relocations moved
RECURSIVE StoreBefore(_, _, _)
StoreBefore(ts, moved, k) ==
  IF k <= 1 THEN ts
  ELSE LET s == StoreBefore(ts, moved, k - 1)
           m == moved[k - 1]
       IN [i \in 1..Len(s) |-> IF s[i].id = m.id THEN [s[i] EXCEPT !.day = m.to] ELSE s[i]]

\* the positions of the not-completed tasks of day d
OpenOn(ts, d) == {i \in 1..Len(ts) : ts[i].day = d /\ ts[i].status = NOT_COMPLETED}

BalanceRan == last'.op = "autoBalance"

C32_LargestFitting ==
  [][BalanceRan =>
       \A k \in 1..Len(last'.bal.moved) :
         LET s == StoreBefore(tasks, last'.bal.moved, k)
             m == last'.bal.moved[k]
         IN \A j \in OpenOn(s, m.from) :
              ~(s[j].duration <= m.excess /\ s[j].duration > m.duration)]_vars

(***************************************************************************)
(* C33: autoBalance changes nothing but the day of not-completed tasks,    *)
(* and each relocation takes a task from the current day to the next day:  *)
(* the store keeps its length, every id, title, duration and status, the   *)
(* day of every completed, approaching or missed task, the sum of the      *)
(* durations, and dailyLimit.                                              *)
(***************************************************************************)
C33_BalanceFrame ==
  [][BalanceRan =>
       LET moved == last'.bal.moved
       IN /\ Len(tasks') = Len(tasks)
          /\ dailyLimit' = dailyLimit
          /\ SumOver(tasks', 1..Len(tasks')) = SumOver(tasks, 1..Len(tasks))
          /\ \A i \in 1..Len(tasks) :
               /\ tasks'[i] = [tasks[i] EXCEPT !.day = tasks'[i].day]
               /\ tasks[i].status # NOT_COMPLETED => tasks'[i].day = tasks[i].day
          /\ tasks' = StoreBefore(tasks, moved, Len(moved) + 1)
          /\ \A k \in 1..Len(moved) :
               /\ moved[k].to = Ahead(moved[k].from, 1)
               /\ \E i \in OpenOn(StoreBefore(tasks, moved, k), moved[k].from) :
                    tasks[i].id = moved[k].id]_vars

C33_Witness ==
  /\ last.op = "autoBalance"
  /\ Len(last.bal.moved) = 7
  /\ last.bal.moved[1].from = "monday"
  /\ last.bal.moved[7].to = "monday"
  /\ \E i \in 1..Len(tasks) : tasks[i].status = APPROACHING /\ tasks[i].day = "monday"
  /\ \E i \in 1..Len(tasks) : tasks[i].status = MISSED /\ tasks[i].day = "monday"

(***************************************************************************)
(* C36: one run of autoBalance shows at most one warning, and it shows the *)
(* cannot-balance warning exactly when it made 7 relocations; the loop     *)
(* then ended on the start day, whose non-missed total is greater than     *)
(* dailyLimit.                                                             *)
(***************************************************************************)
C36_CannotBalanceMeansOver ==
  last.op = "autoBalance" =>
    /\ Len(last.bal.warn) <= 1
    /\ (\E w \in 1..Len(last.bal.warn) : last.bal.warn[w] = CannotBalance)
         <=> Len(last.bal.moved) = 7
    /\ Len(last.bal.moved) = 7
         => /\ last.bal.stop = last.bal.start
            /\ NonMissedTotal(tasks, last.bal.stop) > dailyLimit

C36_Witness ==
  /\ last.op = "autoBalance"
  /\ last.bal.warn = <<CannotBalance>>
  /\ dailyLimit = 50
  /\ last.bal.start = "sunday"

(***************************************************************************)
(* C37: right after autoBalance has moved a task out of a day, the day's   *)
(* non-missed total is >= dailyLimit, and it is dailyLimit exactly when    *)
(* the moved task's duration was the excess.                               *)
(***************************************************************************)
C37_SourceStaysFull ==
  [][BalanceRan =>
       \A k \in 1..Len(last'.bal.moved) :
         LET after == StoreBefore(tasks, last'.bal.moved, k + 1)
             m == last'.bal.moved[k]
         IN /\ NonMissedTotal(after, m.from) >= dailyLimit
            /\ NonMissedTotal(after, m.from) = dailyLimit <=> m.duration = m.excess]_vars

C37_Witness ==
  /\ last.op = "autoBalance"
  /\ Len(last.bal.moved) >= 2
  /\ last.bal.moved[1].duration = last.bal.moved[1].excess
  /\ last.bal.moved[2].duration < last.bal.moved[2].excess
  /\ dailyLimit = 100

\* the store and the current day at the start of iteration k of a run
DayBefore(b, k) == IF k = 1 THEN b.start ELSE b.moved[k - 1].to

\* day d is over the limit in ts and none of its not-completed tasks fits the excess
NothingFits(ts, d, limit) ==
  /\ NonMissedTotal(ts, d) > limit
  /\ \A i \in OpenOn(ts, d) : ts[i].duration > NonMissedTotal(ts, d) - limit

(***************************************************************************)
(* C34: when an iteration of autoBalance finds the current day over the    *)
(* limit and none of its not-completed tasks has a duration <= excess, the *)
(* iteration relocates nothing, the run shows the cannot-redistribute      *)
(* warning and stops there, the days stay as the iteration found them and  *)
(* the current day stays over the limit.                                   *)
(***************************************************************************)
C34_NothingFitsWarns ==
  [][BalanceRan =>
       LET b == last'.bal
       IN \A k \in 1..(Len(b.moved) + 1) :
            LET s == StoreBefore(tasks, b.moved, k)
                d == DayBefore(b, k)
            IN (k <= MAX_BALANCE_ATTEMPTS /\ NothingFits(s, d, dailyLimit))
                 => /\ k = Len(b.moved) + 1
                    /\ b.warn = <<CannotRedistribute>>
                    /\ b.stop = d
                    /\ tasks' = s
                    /\ NonMissedTotal(tasks', d) > dailyLimit']_vars

\* scenario C: limit 150, Monday holds 60 and then 100, both not completed
C34_Witness ==
  /\ last.op = "autoBalance"
  /\ last.bal.start = "monday"
  /\ dailyLimit = 150
  /\ Len(tasks) = 2
  /\ \A i \in 1..2 : tasks[i].day = "monday" /\ tasks[i].status = NOT_COMPLETED
  /\ tasks[1].duration = 60
  /\ tasks[2].duration = 100
  /\ last.bal.warn = <<CannotRedistribute>>
  /\ last.bal.moved = <<>>

(***************************************************************************)
(* C35: when the non-missed total of the start day is <= dailyLimit, the   *)
(* limit itself included, autoBalance relocates no task and shows no       *)
(* warning.                                                                *)
(***************************************************************************)
C35_UnderLimitIdle ==
  [][(BalanceRan /\ NonMissedTotal(tasks, last'.bal.start) <= dailyLimit)
       => /\ last'.bal.moved = <<>>
          /\ last'.bal.warn = <<>>
          /\ tasks' = tasks]_vars

\* limit 150, Monday holds 100 and then 50: the total is the limit
C35_Witness ==
  /\ last.op = "autoBalance"
  /\ last.bal.start = "monday"
  /\ dailyLimit = 150
  /\ Len(tasks) = 2
  /\ \A i \in 1..2 : tasks[i].day = "monday" /\ tasks[i].status = NOT_COMPLETED
  /\ tasks[1].duration = 100
  /\ tasks[2].duration = 50
  /\ last.bal.moved = <<>>
  /\ last.bal.warn = <<>>

\* the errors addTask and updateStatus throw before they change the store
Refusals ==
  {EmptyTitle, TitleTooLong, MarkupNotAllowed, NotANumber, NonPositiveDuration,
   DurationTooLarge, TaskNotFound, IllegalTransition}

\* the document of the signed-in user holds the store
DocumentHolds(ds, ts, limit) == ds[uid] = [exists |-> TRUE, tasks |-> ts, dailyLimit |-> limit]

(***************************************************************************)
(* C38: addTask that passes validation, deleteTask of a task of the store  *)
(* and updateStatus that finds its task and a legal transition call save,  *)
(* and call it after the whole change to the store (for addTask: the task  *)
(* appended and autoBalance run), so an accepted save leaves the document  *)
(* holding the store as it is after the call; a call that throws a         *)
(* validation error, "Task not found" or the illegal transition, and       *)
(* deleteTask of an id that is not in the store, call no save and leave    *)
(* store and document as they were.                                        *)
(***************************************************************************)
C38_SaveFollowsMutation ==
  [][last'.op \in {"addTask", "deleteTask", "updateStatus"} =>
       LET l == last'
       IN /\ l.op = "updateStatus" =>
               /\ l.err = TaskNotFound <=> ~HasId(tasks, l.id)
               /\ l.err = IllegalTransition
                    <=> (HasId(tasks, l.id) /\ TaskById(tasks, l.id).status = COMPLETED
                           /\ l.arg = MISSED)
          /\ IF l.err \in Refusals \/ (l.op = "deleteTask" /\ ~HasId(tasks, l.id))
             THEN /\ ~l.saved
                  /\ ~l.ret
                  /\ tasks' = tasks
                  /\ docs' = docs
             ELSE /\ l.saved
                  /\ Applied(tasks, tasks', l)
                  /\ l.op = "addTask" =>
                       /\ l.bal.ran
                       /\ tasks'[Len(tasks')].id = l.id
                       /\ \A i \in 1..Len(tasks) : tasks'[i].id = tasks[i].id
                       /\ \A k \in 1..Len(l.bal.moved) :
                            (\A h \in (k + 1)..Len(l.bal.moved) :
                               l.bal.moved[h].id # l.bal.moved[k].id)
                              => TaskById(tasks', l.bal.moved[k].id).day = l.bal.moved[k].to
                  /\ \/ l.err = NoError /\ l.ret /\ DocumentHolds(docs', tasks', dailyLimit')
                     \/ l.err = SaveFailed /\ ~l.ret /\ docs' = docs]_vars

\* deleteTask of an absent id after an addTask whose relocation was saved
C38_Witness ==
  /\ last.op = "deleteTask"
  /\ ~last.saved
  /\ ~HasId(tasks, last.id)
  /\ DocumentHolds(docs, tasks, dailyLimit)
  /\ \E i \in 1..Len(tasks) : tasks[i].day = "tuesday"

=============================================================================
